---------------------------- MODULE Spec2Model ----------------------------
(***************************************************************************)
(* A model of slog-journal: the export-format encoder (appendKV,           *)
(* appendAttr, Handle, WithAttrs, WithGroup), the level helpers            *)
(* (LevelVar.Level, levelToPriority) and the datagram transport            *)
(* (journalWriter.Write with its spill-file fallback).                     *)
(*                                                                         *)
(* Byte strings are sequences of byte values (0..255); a Go string and a   *)
(* Go []byte are both such a sequence.                                     *)
(***************************************************************************)
EXTENDS Integers, Sequences, FiniteSets, TLC

VARIABLES
    \* ---- encoder calls (appendKV / appendAttr applied to drawn inputs)
    encCall,      \* the call made: [op, ...arguments], or [op |-> "none"]
    encOut,       \* the buffer the call returned
    \* ---- LevelVar and levelToPriority
    env,          \* value of DEBUG_INVOCATION in the process environment
    levelVal,     \* slog.LevelVar's stored level
    envReads,     \* how many times os.Getenv("DEBUG_INVOCATION") has run
    levelCalls,   \* how many Level() calls have returned
    lastLevel,    \* what the most recent Level() call returned ("none" before)
    lastOp,       \* the most recent call: [op, arguments, result]
    lvlOps,       \* number of calls made so far
    \* ---- handlers and the Go heap their slices live in
    heap,         \* backing arrays: sequence of sequences (index = array id)
    handlers,     \* sequence of Handler values; handlers[1] is NewHandler's
    hist,         \* hist[i]: how handler i was made: [parent, op, attrs, added, view]
    wpc,          \* per deriving thread: position inside WithAttrs
    wloc,         \* per deriving thread: WithAttrs' locals (h, h2, pre, attrs left)
    ret,          \* the last WithAttrs/WithGroup to return: [op, recv, name, res]
    sink,         \* the bytes.Buffer a test installs as h.w (last Handle's bytes)
    sinkRec,      \* the record and handler of the last Handle into sink
    \* ---- transport (journalWriter.Write) and the destination socket
    destExists,   \* whether the destination socket path exists
    pc,           \* per thread: position inside Handle/Write
    buf,          \* per thread: the buffer p handed to Write
    rec,          \* per thread: [id, r]: the Handle call's number and record
    nret,         \* per thread: Write's named result n
    err,          \* per thread: Write's named result err
    file,         \* per thread: the spill file's id (0: none)
    firstErr,     \* per thread: the error the first send returned
    sealErr,      \* per thread: what trySeal returned (NotRun before it ran)
    fdErr,        \* per thread: what WriteMsgUnix returned (NotRun before it ran)
    plainSends,   \* per thread: WriteToUnix calls made by the current Write
    fdSends,      \* per thread: WriteMsgUnix calls made by the current Write
    files,        \* spill files: sequence of [kind, content, sealed, call]
    delivered,    \* messages at the destination: [payload, fds, call]
    calls,        \* number of Handle calls started
    callBuf       \* callBuf[id]: the buffer Handle call id built

encVars == <<encCall, encOut>>
lvlVars == <<env, levelVal, envReads, levelCalls, lastLevel, lastOp, lvlOps>>
hdlVars == <<heap, handlers, hist, wpc, wloc, ret, sink, sinkRec>>
txVars  == <<destExists, pc, buf, rec, nret, err, file, firstErr, sealErr, fdErr,
             plainSends, fdSends, files, delivered, calls, callBuf>>
vars    == <<encVars, lvlVars, hdlVars, txVars>>

-----------------------------------------------------------------------------
(* Bytes and text                                                          *)

LF == 10
EQ == 61
USCORE == 95
MINUS == 45

\* string literals of the source, as bytes
kMESSAGE           == <<77, 69, 83, 83, 65, 71, 69>>
kPRIORITY          == <<80, 82, 73, 79, 82, 73, 84, 89>>
kCODE_FILE         == <<67, 79, 68, 69, 95, 70, 73, 76, 69>>
kCODE_FUNC         == <<67, 79, 68, 69, 95, 70, 85, 78, 67>>
kCODE_LINE         == <<67, 79, 68, 69, 95, 76, 73, 78, 69>>
kSYSLOG_TIMESTAMP  == <<83, 89, 83, 76, 79, 71, 95, 84, 73, 77, 69, 83, 84, 65, 77, 80>>
kSYSLOG_IDENTIFIER == <<83, 89, 83, 76, 79, 71, 95, 73, 68, 69, 78, 84, 73, 70, 73, 69, 82>>

RECURSIVE Digits(_)
\* decimal digits of a natural number, most significant first
Digits(n) == IF n < 10 THEN <<48 + n>> ELSE Digits(n \div 10) \o <<48 + (n % 10)>>

\* strconv.Itoa / strconv.FormatInt(n, 10)
Itoa(n) == IF n < 0 THEN <<MINUS>> \o Digits(-n) ELSE Digits(n)

\* Go's integer division truncates toward zero
TruncDiv(a, b) == IF a >= 0 THEN a \div b ELSE -((-a) \div b)

RECURSIVE LEBytes(_, _)
\* the k low-order bytes of n, least significant first
LEBytes(n, k) == IF k = 0 THEN <<>> ELSE <<n % 256>> \o LEBytes(n \div 256, k - 1)

\* binary.LittleEndian.AppendUint64(b, n)
AppendUint64(b, n) == b \o LEBytes(n, 8)

\* bytes.IndexByte(v, c): 0-based index of the first c in v, or -1
IndexByte(v, c) ==
    IF \E i \in 1..Len(v) : v[i] = c
    THEN (CHOOSE i \in 1..Len(v) : v[i] = c /\ \A j \in 1..(i - 1) : v[j] # c) - 1
    ELSE -1

-----------------------------------------------------------------------------
(* KV Encoder                                                              *)

\* a plausible slip: the binary form is never chosen
appendKV_AlwaysInline(b, k, v) == b \o k \o <<EQ>> \o v \o <<LF>>

\* Handler.appendKV
appendKV(b, k, v) ==
    IF IndexByte(v, LF) # -1
    THEN AppendUint64(b \o k \o <<LF>>, Len(v)) \o v
    ELSE b \o k \o <<EQ>> \o v \o <<LF>>


-----------------------------------------------------------------------------
(* The export format, read back                                            *)

\* the suffix of bs that starts at (1-based) position pos
From(bs, pos) == SubSeq(bs, pos, Len(bs))

\* 1-based position of the first byte of bs at or after pos that is in
\* delims, or 0 when there is none
FirstOf(bs, pos, delims) ==
    IF \E i \in pos..Len(bs) : bs[i] \in delims
    THEN CHOOSE i \in pos..Len(bs) :
            bs[i] \in delims /\ \A j \in pos..(i - 1) : bs[j] \notin delims
    ELSE 0

\* a little-endian uint64 that fits the model's integers: bytes 4..8 are zero
FitsLE(bs8) == \A i \in 4..8 : bs8[i] = 0
FromLE(bs8) == bs8[1] + 256 * bs8[2] + 65536 * bs8[3]

RECURSIVE DecodeFrom(_, _, _)
\* The wire grammar: after the key, '=' starts an inline entry that ends at
\* the next line feed; a bare line feed starts a binary entry: an 8-byte
\* little-endian length L and then exactly L raw bytes, with nothing after.
\* Returns [ok, entries], entries a sequence of [key, value].
DecodeFrom(bs, pos, acc) ==
    IF pos > Len(bs) THEN [ok |-> TRUE, entries |-> acc]
    ELSE LET d == FirstOf(bs, pos, {EQ, LF}) IN
         IF d = 0 THEN [ok |-> FALSE, entries |-> acc]
         ELSE LET key == SubSeq(bs, pos, d - 1) IN
              IF bs[d] = EQ
              THEN LET e == FirstOf(bs, d + 1, {LF}) IN
                   IF e = 0 THEN [ok |-> FALSE, entries |-> acc]
                   ELSE DecodeFrom(bs, e + 1,
                           Append(acc, [key |-> key, value |-> SubSeq(bs, d + 1, e - 1)]))
              ELSE IF d + 8 > Len(bs) \/ ~FitsLE(SubSeq(bs, d + 1, d + 8))
                   THEN [ok |-> FALSE, entries |-> acc]
                   ELSE LET n == FromLE(SubSeq(bs, d + 1, d + 8)) IN
                        IF d + 8 + n > Len(bs) THEN [ok |-> FALSE, entries |-> acc]
                        ELSE DecodeFrom(bs, d + 9 + n,
                                Append(acc, [key |-> key,
                                             value |-> SubSeq(bs, d + 9, d + 8 + n)]))

DecodeEntries(bs) == DecodeFrom(bs, 1, <<>>)

\* readUntil of the test suite: reads from position pos up to and including
\* the first delimiter; at end of input returns what it has read, if anything
readUntil(bs, pos, delims) ==
    LET d == FirstOf(bs, pos, delims) IN
    IF d # 0 THEN [res |-> SubSeq(bs, pos, d), pos |-> d + 1, err |-> "nil"]
    ELSE IF pos <= Len(bs)
         THEN [res |-> From(bs, pos), pos |-> Len(bs) + 1, err |-> "nil"]
         ELSE [res |-> <<>>, pos |-> pos, err |-> "EOF"]

\* kvPairs[key] = value
MapPut(m, key, value) ==
    [k \in (DOMAIN m) \cup {key} |-> IF k = key THEN value ELSE m[k]]

EmptyMap == [k \in {} |-> <<>>]

RECURSIVE deserializeFrom(_, _, _)
\* the loop of deserializeKeyValue; [ok, kv], ok = FALSE when it returns an error
deserializeFrom(bs, pos, m) ==
    LET key == readUntil(bs, pos, {EQ, LF}) IN
    IF key.err = "EOF" THEN [ok |-> TRUE, kv |-> m]
    ELSE LET k == SubSeq(key.res, 1, Len(key.res) - 1) IN
         IF key.res[Len(key.res)] = EQ
         THEN \* first method
              LET value == readUntil(bs, key.pos, {LF}) IN
              IF value.err # "nil" THEN [ok |-> FALSE, kv |-> EmptyMap]
              ELSE deserializeFrom(bs, value.pos,
                      MapPut(m, k, SubSeq(value.res, 1, Len(value.res) - 1)))
         ELSE \* second method
              IF key.pos + 7 > Len(bs) \/ ~FitsLE(SubSeq(bs, key.pos, key.pos + 7))
              THEN [ok |-> FALSE, kv |-> EmptyMap]
              ELSE LET valueLen == FromLE(SubSeq(bs, key.pos, key.pos + 7))
                       vstart   == key.pos + 8
                   IN  IF vstart + valueLen - 1 > Len(bs)
                       THEN [ok |-> FALSE, kv |-> EmptyMap]
                       ELSE IF vstart + valueLen > Len(bs)
                            \* io.ReadFull(r, buf[:1]): the terminating byte
                            THEN [ok |-> FALSE, kv |-> EmptyMap]
                            ELSE deserializeFrom(bs, vstart + valueLen + 1,
                                    MapPut(m, k, SubSeq(bs, vstart, vstart + valueLen - 1)))

\* deserializeKeyValue of the test suite
deserializeKeyValue(bs) == deserializeFrom(bs, 1, EmptyMap)

-----------------------------------------------------------------------------
(* Attributes                                                              *)

\* a time.Time: the zero time (January 1, year 1 UTC), or an instant given
\* by its Unix seconds and nanoseconds
ZeroTime == [zero |-> TRUE, sec |-> 0, nsec |-> 0]
TimeAt(s, ns) == [zero |-> FALSE, sec |-> s, nsec |-> ns]

\* Time.IsZero
IsZero(t) == t.zero

\* strconv.FormatInt(t.UnixMicro(), 10); the zero time lies
\* 62135596800 seconds before the epoch
UnixMicroText(t) ==
    IF t.zero
    THEN <<MINUS>> \o Digits(62135) \o Digits(596800) \o <<48, 48, 48, 48, 48, 48>>
    ELSE Itoa(t.sec * 1000000 + t.nsec \div 1000)

StringValue(s)   == [kind |-> "String", s |-> s]
Int64Value(n)    == [kind |-> "Int64", n |-> n]
DurationValue(d) == [kind |-> "Duration", d |-> d]
TimeValue(t)     == [kind |-> "Time", t |-> t]
GroupValue(as)   == [kind |-> "Group", attrs |-> as]
\* the zero slog.Value: kind Any holding nil
ZeroValue        == [kind |-> "Any"]
Attr(k, v)       == [key |-> k, value |-> v]

\* Value.String for the kinds appendAttr hands it
ValueString(v) ==
    CASE v.kind = "String" -> v.s
      [] v.kind = "Int64"  -> Itoa(v.n)
      [] v.kind = "Any"    -> <<60, 110, 105, 108, 62>>   \* "<nil>"
      [] OTHER             -> <<>>

\* a.Equal(slog.Attr{})
IsEmptyAttr(a) == a.key = <<>> /\ a.value.kind = "Any"

\* strings.ReplaceAll(strings.ToUpper(k), "-", "_") of the README's hooks
ToUpperKey(k) ==
    [i \in 1..Len(k) |->
        IF k[i] \in 97..122 THEN k[i] - 32 ELSE IF k[i] = MINUS THEN USCORE ELSE k[i]]

\* h.opts.ReplaceAttr applied (hook "upper" is the README's example)
ReplaceAttr(opts, groups, a) ==
    IF opts.ReplaceAttr = "upper" THEN [a EXCEPT !.key = ToUpperKey(a.key)] ELSE a

\* h.opts.ReplaceGroup applied
ReplaceGroup(opts, name) ==
    IF opts.ReplaceGroup = "upper" THEN ToUpperKey(name) ELSE name

NoOpts == [ReplaceAttr |-> "nil", ReplaceGroup |-> "nil"]

RECURSIVE appendAttr(_, _, _, _, _)
RECURSIVE appendAttrs(_, _, _, _, _)

\* a plausible slip: an unnamed group adds a prefix segment like a named one
appendAttr_PrefixUnnamed(opts, groups, b, prefix, a0) ==
    IF a0.value.kind = "Group" /\ a0.key = <<>> /\ Len(a0.value.attrs) > 0
    THEN appendAttrs(opts, groups, b, prefix \o <<USCORE>>, a0.value.attrs)
    ELSE IF a0.value.kind = "Group"
         THEN IF Len(a0.value.attrs) = 0 THEN b
              ELSE appendAttrs(opts, groups, b, prefix \o a0.key \o <<USCORE>>,
                               a0.value.attrs)
         ELSE IF IsEmptyAttr(a0) THEN b
              ELSE appendKV(b, prefix \o a0.key, ValueString(a0.value))

\* a plausible slip: a group without children is not dropped but written
\* like a scalar, with the text Value.String gives an empty group ("[]")
appendAttr_EmptyGroupWritten(opts, groups, b, prefix, a0) ==
    IF a0.value.kind = "Group"
    THEN IF Len(a0.value.attrs) = 0
         THEN appendKV(b, prefix \o a0.key, <<91, 93>>)
         ELSE appendAttrs(opts, groups, b,
                          IF a0.key # <<>>
                          THEN prefix \o ReplaceGroup(opts, a0.key) \o <<USCORE>>
                          ELSE prefix,
                          a0.value.attrs)
    ELSE LET a == IF opts.ReplaceAttr # "nil" THEN ReplaceAttr(opts, groups, a0) ELSE a0
         IN  IF IsEmptyAttr(a) THEN b
             ELSE appendKV(b, prefix \o a.key, ValueString(a.value))

\* Handler.appendAttr (values are resolved: no LogValuer among the inputs)
appendAttr(opts, groups, b, prefix, a0) ==
    LET a == IF opts.ReplaceAttr # "nil" /\ a0.value.kind # "Group"
             THEN ReplaceAttr(opts, groups, a0) ELSE a0
    IN
    IF IsEmptyAttr(a) THEN b
    ELSE CASE a.value.kind = "Group" ->
                IF Len(a.value.attrs) = 0 THEN b
                ELSE LET p == IF a.key # <<>>
                              THEN prefix \o ReplaceGroup(opts, a.key) \o <<USCORE>>
                              ELSE prefix
                     IN  appendAttrs(opts, groups, b, p, a.value.attrs)
           [] a.value.kind = "Duration" ->
                appendKV(b, prefix \o a.key, Itoa(TruncDiv(a.value.d, 1000)))
           [] a.value.kind = "Time" ->
                appendKV(b, prefix \o a.key, UnixMicroText(a.value.t))
           [] OTHER ->
                appendKV(b, prefix \o a.key, ValueString(a.value))

\* for _, a := range attrs { b = h.appendAttr(b, prefix, a) }
appendAttrs(opts, groups, b, prefix, attrs) ==
    IF attrs = <<>> THEN b
    ELSE appendAttrs(opts, groups, appendAttr(opts, groups, b, prefix, Head(attrs)),
                     prefix, Tail(attrs))

-----------------------------------------------------------------------------
(* Inputs of the encoder                                                   *)

\* longest value handed to appendKV directly
MaxValLen == 3
\* most children of a group attribute
MaxKids == 2

SeqsUpTo(S, n) == UNION {[1..k -> S] : k \in 0..n}

\* byte values that matter to the format (line feed, '=', NUL) and a letter
ValueBytes == {LF, EQ, 0, 118}
KVValues   == SeqsUpTo(ValueBytes, MaxValLen)
\* keys of the journal's alphabet ("", "K", "K_2")
KVKeys     == {<<>>, <<75>>, <<75, 95, 50>>}
\* what the buffer holds before the call: nothing, or an earlier entry "X=y\n"
Buffers    == {<<>>, <<88, EQ, 121, LF>>}
Prefixes   == {<<>>, <<80, USCORE>>}
OptsSet    == {NoOpts, [ReplaceAttr |-> "upper", ReplaceGroup |-> "upper"]}

ScalarKeys   == {<<>>, <<75>>, <<107, MINUS>>}
ScalarValues ==
    {StringValue(<<>>), StringValue(<<118>>), StringValue(<<97, LF, 98>>),
     ZeroValue, Int64Value(-5), DurationValue(1500), DurationValue(-1500),
     TimeValue(ZeroTime), TimeValue(TimeAt(1, 2999))}
Scalars == {Attr(k, v) : k \in ScalarKeys, v \in ScalarValues}

\* attribute trees: groups named "" or "h" of leaves, and groups of leaves and
\* of such groups (K=v, M=w, and M with a value that holds a line feed)
Leaves     == {Attr(<<75>>, StringValue(<<118>>)), Attr(<<77>>, StringValue(<<119>>))}
LeavesLF   == Leaves \cup {Attr(<<77>>, StringValue(<<120, LF, 121>>))}
GroupNames == {<<>>, <<104>>}
Groups1    == {Attr(n, GroupValue(c)) : n \in GroupNames, c \in SeqsUpTo(LeavesLF, MaxKids)}
Inner      == {Attr(n, GroupValue(c)) :
                  n \in GroupNames, c \in {<<>>, <<Attr(<<75>>, StringValue(<<118>>))>>}}
Groups2    == {Attr(n, GroupValue(c)) :
                  n \in GroupNames, c \in SeqsUpTo(Leaves \cup Inner, MaxKids)}
Trees      == Groups1 \cup Groups2

EncIdle == encCall = [op |-> "none"] /\ encOut = <<>>

\* b = h.appendKV(b, k, v)
CallAppendKV ==
    /\ encCall.op = "none"
    /\ \E b \in Buffers, k \in KVKeys, v \in KVValues :
          /\ encCall' = [op |-> "appendKV", b |-> b, k |-> k, v |-> v]
          /\ encOut' = appendKV(b, k, v)
    /\ UNCHANGED <<lvlVars, hdlVars, txVars>>

\* b = h.appendAttr(b, prefix, a) for a scalar attribute
CallAppendScalar ==
    /\ encCall.op = "none"
    /\ \E o \in OptsSet, b \in Buffers, p \in Prefixes, a \in Scalars :
          /\ encCall' = [op |-> "appendAttr", opts |-> o, b |-> b, prefix |-> p, a |-> a]
          /\ encOut' = appendAttr(o, <<>>, b, p, a)
    /\ UNCHANGED <<lvlVars, hdlVars, txVars>>

\* b = h.appendAttr(b, prefix, a) for a group attribute
CallAppendGroup ==
    /\ encCall.op = "none"
    /\ \E o \in OptsSet, p \in Prefixes, a \in Trees :
          /\ encCall' = [op |-> "appendAttr", opts |-> o, b |-> <<88, EQ, 121, LF>>,
                         prefix |-> p, a |-> a]
          /\ encOut' = appendAttr(o, <<>>, <<88, EQ, 121, LF>>, p, a)
    /\ UNCHANGED <<lvlVars, hdlVars, txVars>>

\* what a call appended to its buffer
Appended == From(encOut, Len(encCall.b) + 1)

-----------------------------------------------------------------------------
(* Levels                                                                  *)

LevelDebug     == -4
LevelInfo      == 0
LevelWarn      == 4
LevelError     == 8
LevelNotice    == LevelInfo + 1
LevelCritical  == LevelError + 1
LevelAlert     == LevelError + 2
LevelEmergency == LevelError + 3

\* syslog.Priority severities
LOG_EMERG   == 0
LOG_ALERT   == 1
LOG_CRIT    == 2
LOG_ERR     == 3
LOG_WARNING == 4
LOG_NOTICE  == 5
LOG_INFO    == 6
LOG_DEBUG   == 7

\* a plausible slip: the codes of critical and alert are exchanged
levelToPriority_CritAlertSwapped(l) ==
    CASE l = LevelDebug     -> LOG_DEBUG
      [] l = LevelInfo      -> LOG_INFO
      [] l = LevelNotice    -> LOG_NOTICE
      [] l = LevelWarn      -> LOG_WARNING
      [] l = LevelError     -> LOG_ERR
      [] l = LevelCritical  -> LOG_ALERT
      [] l = LevelAlert     -> LOG_CRIT
      [] l = LevelEmergency -> LOG_EMERG
      [] OTHER              -> LOG_INFO

\* levelToPriority
levelToPriority(l) ==
    CASE l = LevelDebug     -> LOG_DEBUG
      [] l = LevelInfo      -> LOG_INFO
      [] l = LevelNotice    -> LOG_NOTICE
      [] l = LevelWarn      -> LOG_WARNING
      [] l = LevelError     -> LOG_ERR
      [] l = LevelCritical  -> LOG_CRIT
      [] l = LevelAlert     -> LOG_ALERT
      [] l = LevelEmergency -> LOG_EMERG
      [] OTHER              -> LOG_INFO

\* most calls on one LevelVar in a run
MaxLevelOps == 4

\* levels a caller may pass: the standard ones, those between, and some
\* below debug and above emergency
Levels    == (LevelDebug - 3)..(LevelEmergency + 3)
SetLevels == {LevelDebug, LevelInfo, LevelWarn, LevelError}

\* values of DEBUG_INVOCATION: unset/empty, or set
EnvValues == {"", "1"}

\* &LevelVar{}: the zero value is LevelInfo
LvlInit ==
    /\ env \in EnvValues
    /\ levelVal = LevelInfo
    /\ envReads = 0
    /\ levelCalls = 0
    /\ lastLevel = "none"
    /\ lastOp = [op |-> "none"]
    /\ lvlOps = 0

LvlIdle ==
    /\ env = ""
    /\ levelVal = LevelInfo
    /\ envReads = 0
    /\ levelCalls = 0
    /\ lastLevel = "none"
    /\ lastOp = [op |-> "none"]
    /\ lvlOps = 0

\* The body of LevelVar.Level: sync.OnceFunc(f) builds a new once-guarded
\* function on every call, and the call invokes it at once, so f runs on
\* every call. Returns the level stored after f has run.
LevelAfterOnce == IF env # "" THEN LevelDebug ELSE levelVal

\* v.Level()
LevelCall ==
    /\ lvlOps < MaxLevelOps
    /\ envReads' = envReads + 1
    /\ levelVal' = LevelAfterOnce
    /\ lastLevel' = LevelAfterOnce
    /\ levelCalls' = levelCalls + 1
    /\ lastOp' = [op |-> "Level", before |-> levelVal, result |-> LevelAfterOnce]
    /\ lvlOps' = lvlOps + 1
    /\ UNCHANGED env
    /\ UNCHANGED <<encVars, hdlVars, txVars>>

\* v.Set(l)
SetCall ==
    /\ lvlOps < MaxLevelOps
    /\ \E l \in SetLevels :
          /\ levelVal' = l
          /\ lastOp' = [op |-> "Set", l |-> l]
    /\ lvlOps' = lvlOps + 1
    /\ UNCHANGED <<env, envReads, levelCalls, lastLevel>>
    /\ UNCHANGED <<encVars, hdlVars, txVars>>

\* h.Enabled(ctx, level) with h.opts.Level the LevelVar
EnabledCall ==
    /\ lvlOps < MaxLevelOps
    /\ \E l \in SetLevels :
          lastOp' = [op |-> "Enabled", before |-> levelVal, level |-> l,
                     result |-> (l >= LevelAfterOnce)]
    /\ envReads' = envReads + 1
    /\ levelVal' = LevelAfterOnce
    /\ lastLevel' = LevelAfterOnce
    /\ levelCalls' = levelCalls + 1
    /\ lvlOps' = lvlOps + 1
    /\ UNCHANGED env
    /\ UNCHANGED <<encVars, hdlVars, txVars>>

\* levelToPriority(l)
PriorityCall ==
    /\ lvlOps < MaxLevelOps
    /\ \E l \in Levels :
          lastOp' = [op |-> "levelToPriority", l |-> l, result |-> levelToPriority(l)]
    /\ lvlOps' = lvlOps + 1
    /\ UNCHANGED <<env, levelVal, envReads, levelCalls, lastLevel>>
    /\ UNCHANGED <<encVars, hdlVars, txVars>>

-----------------------------------------------------------------------------
(* Go slices                                                               *)

\* A slice is [arr, len, cap]: arr indexes heap (0: the nil slice); the
\* backing array holds cap elements, of which the slice shows the first len.
NilSlice == [arr |-> 0, len |-> 0, cap |-> 0]

Elements(hp, s) == IF s.arr = 0 THEN <<>> ELSE SubSeq(hp[s.arr], 1, s.len)

\* The allocator's size classes: the capacity a new backing array of at
\* least n elements gets (multiples of 8 up to 32, of 16 beyond)
RoundUpSize(n) ==
    IF n <= 32 THEN ((n + 7) \div 8) * 8 ELSE ((n + 15) \div 16) * 16

\* capacity append picks when newLen elements do not fit in oldCap
GrowCap(oldCap, newLen) ==
    RoundUpSize(IF newLen > 2 * oldCap THEN newLen ELSE 2 * oldCap)

\* append(s, xs...): in place when xs fits the capacity, else into a new
\* array. Returns the heap after and the slice returned.
GoAppend(hp, s, xs) ==
    IF xs = <<>> THEN [heap |-> hp, slice |-> s]
    ELSE IF s.arr # 0 /\ s.len + Len(xs) <= s.cap
    THEN [heap  |-> [hp EXCEPT ![s.arr] =
                        [i \in 1..s.cap |->
                            IF i > s.len /\ i <= s.len + Len(xs)
                            THEN xs[i - s.len] ELSE @[i]]],
          slice |-> [s EXCEPT !.len = s.len + Len(xs)]]
    ELSE LET n  == s.len + Len(xs)
             c  == GrowCap(s.cap, n)
             el == Elements(hp, s) \o xs
         IN  [heap  |-> Append(hp, [i \in 1..c |-> IF i <= n THEN el[i] ELSE 0]),
              slice |-> [arr |-> Len(hp) + 1, len |-> n, cap |-> c]]

\* slices.Clip(s): s[:len(s):len(s)]
Clip(s) == [s EXCEPT !.cap = s.len]

\* a plausible slip: the receiver's slice is used as it is
Clone_Alias(hp, s) == [heap |-> hp, slice |-> s]

\* slices.Clone(s): append(s[:0:0], s...)
Clone(hp, s) ==
    GoAppend(hp, [arr |-> s.arr, len |-> 0, cap |-> 0], Elements(hp, s))

-----------------------------------------------------------------------------
(* Records and Handle                                                      *)

\* path.Base(os.Args[0]): the program is run as "app"
identifier == <<97, 112, 112>>

\* runtime.CallersFrames([]uintptr{pc}).Next(): the frame of a program counter
Frame(p) == [File |-> <<109, 46, 103, 111>>,          \* "m.go"
             Function |-> <<109, 46, 102>>,           \* "m.f"
             Line |-> 40 + p]

Record(msg, lvl, t, p, as) ==
    [Message |-> msg, Level |-> lvl, Time |-> t, PC |-> p, attrs |-> as]

\* a plausible slip: the time is written whatever it is
HandleTime_Always(b, r) == appendKV(b, kSYSLOG_TIMESTAMP, UnixMicroText(r.Time))

\* Handle, the timestamp step
HandleTime(b, r) ==
    IF ~IsZero(r.Time)
    THEN appendKV(b, kSYSLOG_TIMESTAMP, UnixMicroText(r.Time))
    ELSE b

\* Handle, the code-location step
HandlePC(b, r) ==
    IF r.PC # 0
    THEN LET f  == Frame(r.PC)
             b1 == appendKV(b, kCODE_FILE, f.File)
             b2 == appendKV(b1, kCODE_FUNC, f.Function)
         IN  appendKV(b2, kCODE_LINE, Itoa(f.Line))
    ELSE b

\* a plausible slip: the record's attributes are written before the
\* handler's preformatted bytes
HandleBuf_AttrsBeforePre(opts, gs, prefix, pre, r) ==
    LET b1 == appendKV(<<>>, kMESSAGE, r.Message)
        b2 == appendKV(b1, kPRIORITY, Itoa(levelToPriority(r.Level)))
        b3 == HandlePC(b2, r)
        b4 == HandleTime(b3, r)
        b5 == appendKV(b4, kSYSLOG_IDENTIFIER, identifier)
    IN  appendAttrs(opts, gs, b5, prefix, r.attrs) \o pre

\* The buffer Handler.Handle builds and hands to h.w.Write, for a handler
\* with options opts, groups gs, prefix and preformatted bytes pre
HandleBuf(opts, gs, prefix, pre, r) ==
    LET b1 == appendKV(<<>>, kMESSAGE, r.Message)
        b2 == appendKV(b1, kPRIORITY, Itoa(levelToPriority(r.Level)))
        b3 == HandlePC(b2, r)
        b4 == HandleTime(b3, r)
        b5 == appendKV(b4, kSYSLOG_IDENTIFIER, identifier)
        b6 == b5 \o pre
    IN  appendAttrs(opts, gs, b6, prefix, r.attrs)

-----------------------------------------------------------------------------
(* Handlers: NewHandler, WithAttrs, WithGroup, Handle into a buffer        *)

\* most handlers in a run (NewHandler's and those derived from it)
MaxHandlers == 4

DThreads == {1, 2}

\* what a handler shows: its prefix, its groups and its preformatted bytes
View(hp, h) == [prefix |-> h.prefix,
                groups |-> Elements(hp, h.groups),
                pre    |-> Elements(hp, h.preformatted)]

\* NewHandler(opts): h := &Handler{}; h.opts = *opts
NewHandler(opts) ==
    [opts |-> opts, groups |-> NilSlice, prefix |-> <<>>, preformatted |-> NilSlice]

HdlInitWith(optsSet) ==
    /\ heap = <<>>
    /\ \E o \in optsSet :
          /\ handlers = <<NewHandler(o)>>
          /\ hist = <<[parent |-> 0, op |-> "NewHandler", attrs |-> <<>>,
                       added |-> <<>>, view |-> View(<<>>, NewHandler(o))]>>
    /\ wpc = [t \in DThreads |-> "idle"]
    /\ wloc = [t \in DThreads |-> [h |-> 0]]
    /\ ret = [op |-> "none", recv |-> 0, name |-> <<>>, res |-> 0]
    /\ sink = <<>>
    /\ sinkRec = [h |-> 0]

HdlIdle == HdlInitWith({NoOpts})

\* WithAttrs, up to the loop: h2 := *h; pre := slices.Clone(h2.preformatted)
WithAttrsBegin(t, i, attrs) ==
    /\ wpc[t] = "idle"
    /\ Len(handlers) + Cardinality({u \in DThreads : wpc[u] # "idle"}) < MaxHandlers
    /\ LET c == Clone(heap, handlers[i].preformatted) IN
          /\ heap' = c.heap
          /\ wloc' = [wloc EXCEPT ![t] =
                         [h |-> i, h2 |-> handlers[i], pre |-> c.slice,
                          attrs |-> attrs, todo |-> attrs, added |-> <<>>]]
    /\ wpc' = [wpc EXCEPT ![t] = "loop"]
    /\ UNCHANGED <<handlers, hist, ret, sink, sinkRec>>
    /\ UNCHANGED <<encVars, lvlVars, txVars>>

\* a plausible slip: the attributes are encoded without the receiver's prefix
WithAttrsAppend_NoPrefix(t) ==
    /\ wpc[t] = "loop"
    /\ wloc[t].todo # <<>>
    /\ LET l  == wloc[t]
           xs == appendAttr(l.h2.opts, Elements(heap, l.h2.groups), <<>>,
                            <<>>, Head(l.todo))
           r  == GoAppend(heap, l.pre, xs)
       IN  /\ heap' = r.heap
           /\ wloc' = [wloc EXCEPT ![t] =
                          [l EXCEPT !.pre = r.slice, !.todo = Tail(l.todo),
                                    !.added = l.added \o xs]]
    /\ UNCHANGED <<handlers, hist, wpc, ret, sink, sinkRec>>
    /\ UNCHANGED <<encVars, lvlVars, txVars>>

\* one turn of the loop: pre = h2.appendAttr(pre, h2.prefix, a). appendAttr
\* only appends, so what it appends to pre is what it appends to an empty
\* buffer.
WithAttrsAppend(t) ==
    /\ wpc[t] = "loop"
    /\ wloc[t].todo # <<>>
    /\ LET l  == wloc[t]
           xs == appendAttr(l.h2.opts, Elements(heap, l.h2.groups), <<>>,
                            l.h2.prefix, Head(l.todo))
           r  == GoAppend(heap, l.pre, xs)
       IN  /\ heap' = r.heap
           /\ wloc' = [wloc EXCEPT ![t] =
                          [l EXCEPT !.pre = r.slice, !.todo = Tail(l.todo),
                                    !.added = l.added \o xs]]
    /\ UNCHANGED <<handlers, hist, wpc, ret, sink, sinkRec>>
    /\ UNCHANGED <<encVars, lvlVars, txVars>>

\* after the loop: h2.preformatted = pre; return &h2
WithAttrsReturn(t) ==
    /\ wpc[t] = "loop"
    /\ wloc[t].todo = <<>>
    /\ LET l  == wloc[t]
           h2 == [l.h2 EXCEPT !.preformatted = l.pre]
       IN  /\ handlers' = Append(handlers, h2)
           /\ hist' = Append(hist, [parent |-> l.h, op |-> "WithAttrs",
                                    attrs |-> l.attrs, added |-> l.added,
                                    view |-> View(heap, h2)])
    /\ ret' = [op |-> "WithAttrs", recv |-> wloc[t].h, name |-> <<>>,
               res |-> Len(handlers) + 1]
    /\ wpc' = [wpc EXCEPT ![t] = "idle"]
    /\ wloc' = [wloc EXCEPT ![t] = [h |-> 0]]
    /\ UNCHANGED <<heap, sink, sinkRec>>
    /\ UNCHANGED <<encVars, lvlVars, txVars>>

\* a plausible slip: the empty name is treated like any other
WithGroupHandler_NoEmptyCheck(hp, h, name) ==
    LET nm == ReplaceGroup(h.opts, name)
        g  == GoAppend(hp, Clip(h.groups), <<nm>>)
    IN  [new |-> TRUE, heap |-> g.heap,
         h |-> [opts |-> h.opts, groups |-> g.slice,
                prefix |-> h.prefix \o nm \o <<USCORE>>,
                preformatted |-> h.preformatted]]

\* The body of WithGroup on receiver h: [new, heap, h]: for the empty name
\* the receiver itself (new = FALSE), else a new Handler
WithGroupHandler(hp, h, name) ==
    IF name = <<>> THEN [new |-> FALSE, heap |-> hp, h |-> h]
    ELSE LET nm == ReplaceGroup(h.opts, name)
             g  == GoAppend(hp, Clip(h.groups), <<nm>>)
         IN  [new |-> TRUE, heap |-> g.heap,
              h |-> [opts |-> h.opts, groups |-> g.slice,
                     prefix |-> h.prefix \o nm \o <<USCORE>>,
                     preformatted |-> h.preformatted]]

\* h.WithGroup(name), h = handlers[i]
WithGroup(i, name) ==
    /\ Len(handlers) + Cardinality({u \in DThreads : wpc[u] # "idle"}) < MaxHandlers
    /\ LET w == WithGroupHandler(heap, handlers[i], name) IN
          IF w.new
          THEN /\ heap' = w.heap
               /\ handlers' = Append(handlers, w.h)
               /\ hist' = Append(hist, [parent |-> i, op |-> "WithGroup",
                                        attrs |-> <<>>, added |-> <<>>,
                                        view |-> View(w.heap, w.h)])
               /\ ret' = [op |-> "WithGroup", recv |-> i, name |-> name,
                          res |-> Len(handlers) + 1]
          ELSE /\ ret' = [op |-> "WithGroup", recv |-> i, name |-> name, res |-> i]
               /\ UNCHANGED <<heap, handlers, hist>>
    /\ UNCHANGED <<wpc, wloc, sink, sinkRec>>
    /\ UNCHANGED <<encVars, lvlVars, txVars>>

\* h.Handle(ctx, r) with h.w a bytes.Buffer, emptied before the call
HandleInto(i, r) ==
    /\ \A t \in DThreads : wpc[t] = "idle"
    /\ sink' = HandleBuf(handlers[i].opts, Elements(heap, handlers[i].groups),
                         handlers[i].prefix,
                         Elements(heap, handlers[i].preformatted), r)
    /\ sinkRec' = [h |-> i, r |-> r]
    /\ UNCHANGED <<heap, handlers, hist, wpc, wloc, ret>>
    /\ UNCHANGED <<encVars, lvlVars, txVars>>

-----------------------------------------------------------------------------
(* Transport: journalWriter.Write, tempFd, trySeal                         *)

Threads == {1, 2}

\* most Handle calls in a run
MaxCalls == 2
\* largest payload one datagram carries (the socket's send buffer, scaled)
MaxDatagram == 48

\* error values: whether the value is a *net.OpError, whether the error it
\* wraps is an *os.SyscallError, and the errno (or what else it is)
Nil         == [isOp |-> FALSE, isSys |-> FALSE, errno |-> "nil"]
SysErr(e)   == [isOp |-> TRUE, isSys |-> TRUE, errno |-> e]
ErrClosed   == [isOp |-> TRUE, isSys |-> FALSE, errno |-> "closed"]
PlainErr(e) == [isOp |-> FALSE, isSys |-> FALSE, errno |-> e]
\* the call whose result a variable records has not been made
NotRun      == [isOp |-> FALSE, isSys |-> FALSE, errno |-> "not run"]

\* What the kernel answers to a send of n payload bytes: the size is checked
\* first, then the destination is looked up, then the message is queued,
\* unless the send fails for another reason.
SendOutcomes(n) ==
    IF n > MaxDatagram THEN {SysErr("EMSGSIZE")}
    ELSE IF ~destExists THEN {SysErr("ENOENT")}
    ELSE {Nil, SysErr("ENOBUFS"), SysErr("ECONNREFUSED"), ErrClosed}

\* a plausible slip: a missing destination is reported like any other error
AfterFirstSend_NoSilence(e) ==
    IF e = Nil THEN "ok"
    ELSE IF e.isOp /\ e.isSys /\ e.errno \in {"ENOBUFS", "EMSGSIZE"} THEN "fallback"
    ELSE "fail"

\* a plausible slip: Write does not return after a send that succeeded, and
\* goes on to the spill file
AfterFirstSend_SpillAfterSuccess(e) ==
    IF e = Nil THEN "fallback"
    ELSE IF ~e.isOp THEN "fail"
    ELSE IF ~e.isSys THEN "fail"
    ELSE IF e.errno = "ENOENT" THEN "ok"
    ELSE IF e.errno # "ENOBUFS" /\ e.errno # "EMSGSIZE" THEN "fail"
    ELSE "fallback"

\* a plausible slip: every errno but ENOENT leads to the spill file
AfterFirstSend_AnyErrnoSpills(e) ==
    IF e = Nil THEN "ok"
    ELSE IF ~e.isOp THEN "fail"
    ELSE IF ~e.isSys THEN "fail"
    ELSE IF e.errno = "ENOENT" THEN "ok"
    ELSE "fallback"

\* Write, after the first send returned e: "ok" returns n, nil; "fail"
\* returns n, err; "fallback" goes on to the spill file
AfterFirstSend(e) ==
    IF e = Nil THEN "ok"
    ELSE IF ~e.isOp THEN "fail"
    ELSE IF ~e.isSys THEN "fail"
    ELSE IF e.errno = "ENOENT" THEN "ok"
    ELSE IF e.errno # "ENOBUFS" /\ e.errno # "EMSGSIZE" THEN "fail"
    ELSE "fallback"

\* tempFd: memfd_create, else (tempFdCommon) an unlinked file in /dev/shm,
\* else one in os.TempDir(); the kinds of file it can return
FileKinds == {"memfd", "shm", "tmp"}

\* F_ADD_SEALS succeeds only on a memfd made with MFD_ALLOW_SEALING (and may
\* fail there); any other file refuses seals
SealOutcomes(kind) ==
    IF kind = "memfd" THEN {Nil, PlainErr("EBUSY")} ELSE {PlainErr("EPERM")}

\* a plausible slip: the buffer travels in the payload beside the descriptor
FdMessage_WithPayload(p, fd, id) == [payload |-> p, fds |-> <<fd>>, call |-> id]

\* the message WriteMsgUnix([]byte{}, syscall.UnixRights(fd), j.addr) sends
FdMessage(p, fd, id) == [payload |-> <<>>, fds |-> <<fd>>, call |-> id]

TxInitWith(exists) ==
    /\ destExists \in exists
    /\ pc = [t \in Threads |-> "idle"]
    /\ buf = [t \in Threads |-> <<>>]
    /\ rec = [t \in Threads |-> [id |-> 0]]
    /\ nret = [t \in Threads |-> 0]
    /\ err = [t \in Threads |-> Nil]
    /\ file = [t \in Threads |-> 0]
    /\ firstErr = [t \in Threads |-> Nil]
    /\ sealErr = [t \in Threads |-> NotRun]
    /\ fdErr = [t \in Threads |-> NotRun]
    /\ plainSends = [t \in Threads |-> 0]
    /\ fdSends = [t \in Threads |-> 0]
    /\ files = <<>>
    /\ delivered = <<>>
    /\ calls = 0
    /\ callBuf = <<>>

TxIdle == TxInitWith({TRUE})

\* Handle on NewHandler(nil)'s handler, up to h.w.Write(buf)
Handle(t, r) ==
    /\ pc[t] \in {"idle", "done"}
    /\ calls < MaxCalls
    /\ calls' = calls + 1
    /\ buf' = [buf EXCEPT ![t] = HandleBuf(NoOpts, <<>>, <<>>, <<>>, r)]
    /\ callBuf' = Append(callBuf, HandleBuf(NoOpts, <<>>, <<>>, <<>>, r))
    /\ rec' = [rec EXCEPT ![t] = [id |-> calls + 1, r |-> r]]
    /\ pc' = [pc EXCEPT ![t] = "send"]
    /\ nret' = [nret EXCEPT ![t] = 0]
    /\ err' = [err EXCEPT ![t] = Nil]
    /\ file' = [file EXCEPT ![t] = 0]
    /\ firstErr' = [firstErr EXCEPT ![t] = Nil]
    /\ sealErr' = [sealErr EXCEPT ![t] = NotRun]
    /\ fdErr' = [fdErr EXCEPT ![t] = NotRun]
    /\ plainSends' = [plainSends EXCEPT ![t] = 0]
    /\ fdSends' = [fdSends EXCEPT ![t] = 0]
    /\ UNCHANGED <<destExists, files, delivered>>
    /\ UNCHANGED <<encVars, lvlVars, hdlVars>>

\* n, err = j.conn.WriteToUnix(p, j.addr) and the checks on err after it
WriteToUnix(t) ==
    /\ pc[t] = "send"
    /\ \E e \in SendOutcomes(Len(buf[t])) :
          LET n == IF e = Nil THEN Len(buf[t]) ELSE 0 IN
          /\ firstErr' = [firstErr EXCEPT ![t] = e]
          /\ nret' = [nret EXCEPT ![t] = n]
          /\ delivered' = IF e = Nil
                          THEN Append(delivered, [payload |-> buf[t], fds |-> <<>>,
                                                  call |-> rec[t].id])
                          ELSE delivered
          /\ err' = [err EXCEPT ![t] = IF AfterFirstSend(e) = "fail" THEN e ELSE Nil]
          /\ pc' = [pc EXCEPT ![t] =
                       IF AfterFirstSend(e) = "fallback" THEN "tempfd" ELSE "done"]
    /\ plainSends' = [plainSends EXCEPT ![t] = @ + 1]
    /\ UNCHANGED <<destExists, buf, rec, file, sealErr, fdErr, fdSends, files, calls, callBuf>>
    /\ UNCHANGED <<encVars, lvlVars, hdlVars>>

\* file, err := tempFd()
TempFd(t) ==
    /\ pc[t] = "tempfd"
    /\ \/ \E k \in FileKinds :
             /\ files' = Append(files, [kind |-> k, content |-> <<>>,
                                        sealed |-> FALSE, call |-> rec[t].id])
             /\ file' = [file EXCEPT ![t] = Len(files) + 1]
             /\ pc' = [pc EXCEPT ![t] = "write"]
             /\ UNCHANGED err
       \/ /\ err' = [err EXCEPT ![t] = PlainErr("EMFILE")]
          /\ pc' = [pc EXCEPT ![t] = "done"]
          /\ UNCHANGED <<files, file>>
    /\ UNCHANGED <<destExists, buf, rec, nret, firstErr, sealErr, fdErr, plainSends,
                   fdSends, delivered, calls, callBuf>>
    /\ UNCHANGED <<encVars, lvlVars, hdlVars>>

\* a plausible slip: the result of file.Write is not looked at, and a short
\* write goes on to the seal and the send
FileWrite_ShortWriteIgnored(t) ==
    /\ pc[t] = "write"
    /\ \E k \in {0, Len(buf[t]) - 1, Len(buf[t])} :
          files' = [files EXCEPT ![file[t]].content = SubSeq(buf[t], 1, k)]
    /\ pc' = [pc EXCEPT ![t] = "seal"]
    /\ UNCHANGED <<nret, err>>
    /\ UNCHANGED <<destExists, buf, rec, file, firstErr, sealErr, fdErr, plainSends,
                   fdSends, delivered, calls, callBuf>>
    /\ UNCHANGED <<encVars, lvlVars, hdlVars>>

\* if n, err := file.Write(p); err != nil { return n, err }
FileWrite(t) ==
    /\ pc[t] = "write"
    /\ \/ /\ files' = [files EXCEPT ![file[t]].content = buf[t]]
          /\ pc' = [pc EXCEPT ![t] = "seal"]
          /\ UNCHANGED <<nret, err>>
       \/ \E k \in {0, Len(buf[t]) - 1} :
             /\ files' = [files EXCEPT ![file[t]].content = SubSeq(buf[t], 1, k)]
             /\ nret' = [nret EXCEPT ![t] = k]
             /\ err' = [err EXCEPT ![t] = PlainErr("ENOSPC")]
             /\ pc' = [pc EXCEPT ![t] = "done"]
    /\ UNCHANGED <<destExists, buf, rec, file, firstErr, sealErr, fdErr, plainSends,
                   fdSends, delivered, calls, callBuf>>
    /\ UNCHANGED <<encVars, lvlVars, hdlVars>>

\* Write, after trySeal returned e for a file of the given kind: any error is
\* returned, whatever the kind
AfterSeal(t, kind, e) ==
    IF e = Nil
    THEN /\ files' = [files EXCEPT ![file[t]].sealed = TRUE]
         /\ pc' = [pc EXCEPT ![t] = "sendfd"]
         /\ UNCHANGED err
    ELSE /\ err' = [err EXCEPT ![t] = e]
         /\ pc' = [pc EXCEPT ![t] = "done"]
         /\ UNCHANGED files

\* if err := trySeal(file); err != nil { return n, err }
TrySeal(t) ==
    /\ pc[t] = "seal"
    /\ \E e \in SealOutcomes(files[file[t]].kind) :
          /\ sealErr' = [sealErr EXCEPT ![t] = e]
          /\ AfterSeal(t, files[file[t]].kind, e)
    /\ UNCHANGED <<destExists, buf, rec, nret, file, firstErr, fdErr, plainSends,
                   fdSends, delivered, calls, callBuf>>
    /\ UNCHANGED <<encVars, lvlVars, hdlVars>>

\* j.conn.WriteMsgUnix([]byte{}, syscall.UnixRights(fd), j.addr), and the
\* return after it: 0, err when it fails, else n, err (err is tempFd's nil)
WriteMsgUnix(t) ==
    /\ pc[t] = "sendfd"
    /\ \E e \in SendOutcomes(0) :
          /\ delivered' = IF e = Nil
                          THEN Append(delivered, FdMessage(buf[t], file[t], rec[t].id))
                          ELSE delivered
          /\ fdErr' = [fdErr EXCEPT ![t] = e]
          /\ err' = [err EXCEPT ![t] = IF e = Nil THEN @ ELSE e]
          /\ nret' = [nret EXCEPT ![t] = IF e = Nil THEN @ ELSE 0]
    /\ fdSends' = [fdSends EXCEPT ![t] = @ + 1]
    /\ pc' = [pc EXCEPT ![t] = "done"]
    /\ UNCHANGED <<destExists, buf, rec, file, firstErr, sealErr, plainSends, files,
                   calls, callBuf>>
    /\ UNCHANGED <<encVars, lvlVars, hdlVars>>

-----------------------------------------------------------------------------
(* Specifications                                                          *)

\* records handed to Handle on NewHandler(nil)'s handler, writing to a buffer
Messages   == {<<104, 105>>, <<97, LF, 98>>, <<>>}
RecLevels  == {LevelInfo, LevelWarn + 1, LevelError}
RecTimes   == {ZeroTime, TimeAt(0, 0), TimeAt(1, 2999)}
RecPCs     == {0, 1}
RecAttrs   == {<<>>,
               <<Attr(<<75>>, StringValue(<<118>>))>>,
               <<Attr(<<75>>, StringValue(<<120, LF, 121>>))>>,
               <<Attr(<<75>>, StringValue(<<120, LF>>)), Attr(<<77>>, StringValue(<<119>>))>>,
               <<Attr(<<104>>, GroupValue(<<Attr(<<77>>, StringValue(<<119>>))>>))>>}
Records    == {Record(m, l, t, p, a) :
                  m \in Messages, l \in RecLevels, t \in RecTimes, p \in RecPCs,
                  a \in RecAttrs}

AttrLists  == {<<Attr(<<75>>, StringValue(<<118>>))>>,
               <<Attr(<<77>>, StringValue(<<119>>)),
                 Attr(<<104>>, GroupValue(<<Attr(<<75>>, StringValue(<<118>>))>>))>>}
WithNames  == {<<>>, <<103>>}

\* records of the transport runs: a short and a long message
TxRecords  == {Record(m, LevelInfo, ZeroTime, 0, <<>>) :
                  m \in {<<104, 105>>, [i \in 1..12 |-> 97]}}

\* appendKV and appendAttr applied to drawn inputs
EncInit == EncIdle /\ LvlIdle /\ HdlIdle /\ TxIdle
EncNext == CallAppendKV \/ CallAppendScalar \/ CallAppendGroup
SpecEncode == EncInit /\ [][EncNext]_vars

\* one LevelVar, and levelToPriority
LevelInit == EncIdle /\ LvlInit /\ HdlIdle /\ TxIdle
LevelNext == LevelCall \/ SetCall \/ EnabledCall \/ PriorityCall
SpecLevel == LevelInit /\ [][LevelNext]_vars

\* Handle on NewHandler(nil)'s handler, into a buffer
RecordInit == EncIdle /\ LvlIdle /\ HdlIdle /\ TxIdle
RecordNext == \E r \in Records : HandleInto(1, r)
SpecRecord == RecordInit /\ [][RecordNext]_vars

\* handlers derived by WithAttrs and WithGroup from two threads
HandlerInit == EncIdle /\ LvlIdle /\ HdlInitWith(OptsSet) /\ TxIdle
HandlerNext ==
    \/ \E t \in DThreads, i \in 1..Len(handlers), a \in AttrLists : WithAttrsBegin(t, i, a)
    \/ \E t \in DThreads : WithAttrsAppend(t)
    \/ \E t \in DThreads : WithAttrsReturn(t)
    \/ \E i \in 1..Len(handlers), n \in WithNames : WithGroup(i, n)
SpecHandler == HandlerInit /\ [][HandlerNext]_vars

\* records handed to derived handlers
DeriveRecords ==
    {Record(<<104, 105>>, LevelInfo, ZeroTime, 0, <<>>),
     Record(<<104, 105>>, LevelInfo, TimeAt(1, 2999), 1,
            <<Attr(<<75>>, StringValue(<<118>>))>>),
     Record(<<97, LF, 98>>, LevelWarn, ZeroTime, 1,
            <<Attr(<<104>>, GroupValue(<<Attr(<<77>>, StringValue(<<119>>))>>))>>),
     Record(<<>>, LevelError, TimeAt(0, 0), 0,
            <<Attr(<<107, MINUS>>, StringValue(<<120, LF, 121>>)),
              Attr(<<75>>, StringValue(<<118>>))>>)}

\* the attributes handed to WithAttrs there: a scalar and a named group
DeriveAttrs ==
    <<Attr(<<77>>, StringValue(<<119>>)),
      Attr(<<104>>, GroupValue(<<Attr(<<75>>, StringValue(<<118>>))>>))>>

\* one thread derives handlers and calls Handle on any of them
DeriveInit == EncIdle /\ LvlIdle /\ HdlInitWith(OptsSet) /\ TxIdle
DeriveNext ==
    \/ \E i \in 1..Len(handlers) : WithAttrsBegin(1, i, DeriveAttrs)
    \/ WithAttrsAppend(1)
    \/ WithAttrsReturn(1)
    \/ \E i \in 1..Len(handlers), n \in WithNames : WithGroup(i, n)
    \/ \E i \in 1..Len(handlers), r \in DeriveRecords : HandleInto(i, r)
SpecDerive == DeriveInit /\ [][DeriveNext]_vars

\* threads calling Handle on handlers that share one journalWriter
Init == EncIdle /\ LvlIdle /\ HdlIdle /\ TxInitWith(BOOLEAN)
Next ==
    \/ \E t \in Threads, r \in TxRecords : Handle(t, r)
    \/ \E t \in Threads : WriteToUnix(t)
    \/ \E t \in Threads : TempFd(t)
    \/ \E t \in Threads : FileWrite(t)
    \/ \E t \in Threads : TrySeal(t)
    \/ \E t \in Threads : WriteMsgUnix(t)
Spec == Init /\ [][Next]_vars

-----------------------------------------------------------------------------
(* Claims about the encoder (SpecEncode)                                   *)

HasLF(v) == \E i \in 1..Len(v) : v[i] = LF

RECURSIVE ScalarPaths(_, _)
RECURSIVE ScalarPathsOf(_, _)
\* the scalar attributes of tree a in order, each with the names of the
\* groups that enclose it, outermost first
ScalarPaths(a, names) ==
    IF a.value.kind = "Group"
    THEN ScalarPathsOf(a.value.attrs, Append(names, a.key))
    ELSE <<[names |-> names, a |-> a]>>

ScalarPathsOf(as, names) ==
    IF as = <<>> THEN <<>>
    ELSE ScalarPaths(Head(as), names) \o ScalarPathsOf(Tail(as), names)

RECURSIVE JoinNames(_)
\* name + "_" for each non-empty name
JoinNames(names) ==
    IF names = <<>> THEN <<>>
    ELSE (IF Head(names) = <<>> THEN <<>> ELSE Head(names) \o <<USCORE>>)
         \o JoinNames(Tail(names))

\* a scalar attribute with a non-empty key and a non-empty value
PlainScalar(a) ==
    /\ a.key # <<>>
    /\ a.value.kind \in {"String", "Int64", "Duration", "Time"}
    /\ a.value.kind = "String" => a.value.s # <<>>

\* C5: with no hooks, appendAttr on a tree whose scalar attributes all have
\* a non-empty key and value appends exactly one entry per scalar attribute,
\* in the tree's order, keyed prefix + (name + "_" for each enclosing group
\* with a non-empty name, outermost first) + key, and a text value arrives
\* as it is.
C5_FlattenKeys ==
    (/\ encCall.op = "appendAttr"
     /\ encCall.opts = NoOpts
     /\ \A i \in 1..Len(ScalarPaths(encCall.a, <<>>)) :
           PlainScalar(ScalarPaths(encCall.a, <<>>)[i].a))
    => LET paths == ScalarPaths(encCall.a, <<>>)
           d     == DecodeEntries(Appended)
       IN  /\ SubSeq(encOut, 1, Len(encCall.b)) = encCall.b
           /\ d.ok
           /\ Len(d.entries) = Len(paths)
           /\ \A i \in 1..Len(paths) :
                 /\ d.entries[i].key =
                       encCall.prefix \o JoinNames(paths[i].names) \o paths[i].a.key
                 /\ paths[i].a.value.kind = "String" =>
                       d.entries[i].value = paths[i].a.value.s

\* group "h" holding an unnamed group holding K=v gave the one entry h_K=v
C5_Witness ==
    /\ encCall.op = "appendAttr"
    /\ encCall.opts = NoOpts
    /\ encCall.prefix = <<>>
    /\ encCall.a = Attr(<<104>>, GroupValue(<<Attr(<<>>,
                      GroupValue(<<Attr(<<75>>, StringValue(<<118>>))>>))>>))
    /\ Appended = <<104, USCORE, 75, EQ, 118, LF>>

-----------------------------------------------------------------------------
(* Claims about the levels (SpecLevel)                                     *)

StdLevels == {LevelDebug, LevelInfo, LevelNotice, LevelWarn, LevelError,
              LevelCritical, LevelAlert, LevelEmergency}

\* the priority code of each standard level
StdCode(l) ==
    CASE l = LevelDebug -> 7 [] l = LevelInfo -> 6 [] l = LevelNotice -> 5
      [] l = LevelWarn -> 4 [] l = LevelError -> 3 [] l = LevelCritical -> 2
      [] l = LevelAlert -> 1 [] l = LevelEmergency -> 0

\* the nearest standard level at or below l (l is at or above debug)
NearestBelow(l) ==
    CHOOSE n \in StdLevels : n <= l /\ \A m \in StdLevels : m <= l => m <= n

\* C6: levelToPriority maps a level that is not one of the eight standard
\* levels to the code of the nearest standard level at or below it, and to
\* the code of info when the level is below debug.
C6_NearestStandardBelow ==
    (lastOp.op = "levelToPriority" /\ lastOp.l \notin StdLevels) =>
        lastOp.result = IF lastOp.l < LevelDebug THEN StdCode(LevelInfo)
                        ELSE StdCode(NearestBelow(lastOp.l))

\* C7: over any sequence of Level and Set calls the environment variable is
\* read at most once, and every Level call after the first returns the level
\* stored before it, without overriding it again.
C7_EnvReadOnceAndCached ==
    /\ envReads <= 1
    /\ (lastOp.op = "Level" /\ levelCalls >= 2) =>
          (lastOp.result = lastOp.before /\ levelVal = lastOp.before)

-----------------------------------------------------------------------------
(* Claims about Handle's bytes (SpecRecord)                                *)

\* C4: the test suite's decoder reads what Handle wrote back as a map in
\* which MESSAGE is the record's message, PRIORITY the decimal priority code
\* and every scalar attribute's wire key maps to its value, also when the
\* message or an attribute value holds a line feed.
C4_TestDecoderReadsHandle ==
    sinkRec.h # 0 =>
        LET r     == sinkRec.r
            d     == deserializeKeyValue(sink)
            paths == ScalarPathsOf(r.attrs, <<>>)
        IN  /\ d.ok
            /\ kMESSAGE \in DOMAIN d.kv
            /\ d.kv[kMESSAGE] = r.Message
            /\ kPRIORITY \in DOMAIN d.kv
            /\ d.kv[kPRIORITY] = <<48 + StdCode(IF r.Level \in StdLevels
                                                 THEN r.Level ELSE LevelInfo)>>
            /\ \A i \in 1..Len(paths) :
                  LET k == JoinNames(paths[i].names) \o paths[i].a.key IN
                  /\ k \in DOMAIN d.kv
                  /\ d.kv[k] = paths[i].a.value.s

RECURSIVE ParseDec(_)
\* the number a sequence of decimal digits writes
ParseDec(ds) ==
    IF ds = <<>> THEN 0
    ELSE 10 * ParseDec(SubSeq(ds, 1, Len(ds) - 1)) + (ds[Len(ds)] - 48)

IsDecimal(ds) == ds # <<>> /\ \A i \in 1..Len(ds) : ds[i] \in 48..57

\* C10: Handle writes no timestamp entry for a record with the zero time,
\* and for any other time exactly one, whose value is the decimal text of
\* the time in microseconds since the epoch.
C10_Timestamp ==
    sinkRec.h # 0 =>
        LET r  == sinkRec.r
            d  == DecodeEntries(sink)
            ts == {i \in 1..Len(d.entries) : d.entries[i].key = kSYSLOG_TIMESTAMP}
        IN  /\ d.ok
            /\ IF r.Time.zero THEN ts = {}
               ELSE /\ Cardinality(ts) = 1
                    /\ \A i \in ts :
                          /\ IsDecimal(d.entries[i].value)
                          /\ ParseDec(d.entries[i].value) =
                                r.Time.sec * 1000000 + r.Time.nsec \div 1000

\* a record timed 1.000002999 s after the epoch was written with
\* SYSLOG_TIMESTAMP=1000002
C10_Witness ==
    /\ sinkRec.h # 0
    /\ sinkRec.r.Time = TimeAt(1, 2999)
    /\ \E i \in 1..Len(DecodeEntries(sink).entries) :
          DecodeEntries(sink).entries[i] =
             [key |-> kSYSLOG_TIMESTAMP, value |-> <<49, 48, 48, 48, 48, 48, 50>>]

-----------------------------------------------------------------------------
(* Claims about derived handlers (SpecHandler)                             *)

\* C8: WithAttrs and WithGroup never change a handler that exists: every
\* handler shows the prefix, groups and preformatted bytes it was made with;
\* a derived handler's preformatted bytes are its parent's followed by what
\* its own call added; and a WithAttrs call under way sees its receiver's
\* bytes followed by what it has added itself, whatever other threads do.
C8_ReceiverNeverMutated ==
    /\ \A i \in 1..Len(handlers) :
          /\ View(heap, handlers[i]) = hist[i].view
          /\ hist[i].parent # 0 =>
                hist[i].view.pre = hist[hist[i].parent].view.pre \o hist[i].added
    /\ \A t \in DThreads :
          wpc[t] = "loop" =>
             Elements(heap, wloc[t].pre) = hist[wloc[t].h].view.pre \o wloc[t].added

\* two threads are inside WithAttrs on the same receiver, whose preformatted
\* slice has room left in its backing array, and each has added its bytes
C8_Witness ==
    /\ wpc[1] = "loop" /\ wpc[2] = "loop"
    /\ wloc[1].h = wloc[2].h
    /\ handlers[wloc[1].h].preformatted.cap > handlers[wloc[1].h].preformatted.len
    /\ handlers[wloc[1].h].preformatted.len > 0
    /\ wloc[1].added # <<>> /\ wloc[2].added # <<>>
    /\ wloc[1].added # wloc[2].added

-----------------------------------------------------------------------------
(* Claims about the transport (Spec)                                       *)

\* the messages at the destination that Handle call id sent
MessagesOf(id) == {m \in 1..Len(delivered) : delivered[m].call = id}
FilesOf(id)    == {f \in 1..Len(files) : files[f].call = id}
Capacity(e)    == e \in {SysErr("ENOBUFS"), SysErr("EMSGSIZE")}

\* C1: when the first send fails with ENOBUFS or EMSGSIZE and the fallback
\* succeeds, the destination has exactly one message of the call, with an
\* empty payload and one descriptor whose file holds the whole buffer, and
\* Write returns no error.
C1_FallbackDelivers ==
    \A t \in Threads :
        (pc[t] = "done" /\ Capacity(firstErr[t]) /\ fdErr[t] = Nil) =>
            /\ err[t] = Nil
            /\ Cardinality(MessagesOf(rec[t].id)) = 1
            /\ \A m \in MessagesOf(rec[t].id) :
                  /\ delivered[m].payload = <<>>
                  /\ Len(delivered[m].fds) = 1
                  /\ files[delivered[m].fds[1]].content = buf[t]

\* a buffer too large for one datagram arrived as a descriptor
C1_Witness ==
    \E t \in Threads :
        /\ pc[t] = "done"
        /\ Len(buf[t]) > MaxDatagram
        /\ firstErr[t] = SysErr("EMSGSIZE")
        /\ fdErr[t] = Nil
        /\ \E m \in MessagesOf(rec[t].id) : delivered[m].fds = <<file[t]>>

\* C2: when the first send fails with ENOENT, Write returns nil, having
\* created no file, made no second send and delivered nothing.
C2_AbsentDestinationSilent ==
    \A t \in Threads :
        (pc[t] = "done" /\ firstErr[t] = SysErr("ENOENT")) =>
            /\ err[t] = Nil
            /\ file[t] = 0
            /\ FilesOf(rec[t].id) = {}
            /\ plainSends[t] = 1
            /\ fdSends[t] = 0
            /\ MessagesOf(rec[t].id) = {}

\* a Write whose send found no destination has returned
C2_Witness ==
    \E t \in Threads :
        pc[t] = "done" /\ firstErr[t] = SysErr("ENOENT") /\ ~destExists

\* C9: a failure to seal a spill file that came from a fallback path (/dev/shm
\* or the temp directory) is not fatal: the descriptor is still sent, and
\* Write succeeds if that send does; only on a memfd is it returned.
C9_SealFailureOnFallbackIgnored ==
    \A t \in Threads :
        (pc[t] = "done" /\ sealErr[t] \notin {NotRun, Nil}) =>
            IF files[file[t]].kind = "memfd"
            THEN err[t] = sealErr[t] /\ fdSends[t] = 0
            ELSE fdSends[t] = 1 /\ (fdErr[t] = Nil => err[t] = Nil)

-----------------------------------------------------------------------------
(* More claims about the levels (SpecLevel)                                *)

\* C11: levelToPriority answers every level with a code in 0..7, and the
\* eight standard levels debug, info, notice, warning, error, critical,
\* alert, emergency with 7, 6, 5, 4, 3, 2, 1, 0.
C11_TotalAndStandardCodes ==
    lastOp.op = "levelToPriority" =>
        /\ lastOp.result \in 0..7
        /\ lastOp.l = LevelDebug     => lastOp.result = 7
        /\ lastOp.l = LevelInfo      => lastOp.result = 6
        /\ lastOp.l = LevelNotice    => lastOp.result = 5
        /\ lastOp.l = LevelWarn      => lastOp.result = 4
        /\ lastOp.l = LevelError     => lastOp.result = 3
        /\ lastOp.l = LevelCritical  => lastOp.result = 2
        /\ lastOp.l = LevelAlert     => lastOp.result = 1
        /\ lastOp.l = LevelEmergency => lastOp.result = 0

\* levelToPriority has answered alert with 1
C11_Witness ==
    /\ lastOp.op = "levelToPriority"
    /\ lastOp.l = LevelAlert
    /\ lastOp.result = 1

-----------------------------------------------------------------------------
(* More claims about the encoder (SpecEncode)                              *)

\* C12: appendAttr on a group attribute without children returns the buffer
\* as it was, writing no entry, whether the group is named or not, whatever
\* the prefix and the hooks.
C12_EmptyGroupDropped ==
    (/\ encCall.op = "appendAttr"
     /\ encCall.a.value.kind = "Group"
     /\ encCall.a.value.attrs = <<>>) =>
        /\ encOut = encCall.b
        /\ Appended = <<>>

\* appendAttr was called on the childless group named "h" under the prefix
\* "P_", with a buffer that already holds an entry
C12_Witness ==
    /\ encCall.op = "appendAttr"
    /\ encCall.a = Attr(<<104>>, GroupValue(<<>>))
    /\ encCall.prefix = <<80, USCORE>>
    /\ encCall.b # <<>>
    /\ encOut = encCall.b

-----------------------------------------------------------------------------
(* Claims about Handle on derived handlers (SpecDerive)                    *)

\* what handlers[i].Handle(r) writes
HandleOf(i, r) ==
    HandleBuf(handlers[i].opts, Elements(heap, handlers[i].groups),
              handlers[i].prefix, Elements(heap, handlers[i].preformatted), r)

\* r with the attributes as placed before its own
WithAttrsFirst(r, as) == [r EXCEPT !.attrs = as \o r.attrs]

\* C13: what h.WithAttrs(A).Handle(r) writes is what h.Handle writes for r
\* with A placed before r's own attributes, for every handler h that
\* WithAttrs and WithGroup calls have derived.
C13_WithAttrsIsPrepending ==
    (sinkRec.h # 0 /\ hist[sinkRec.h].op = "WithAttrs") =>
        sink = HandleOf(hist[sinkRec.h].parent,
                        WithAttrsFirst(sinkRec.r, hist[sinkRec.h].attrs))

\* Handle has written a record that has attributes through a handler made by
\* WithAttrs from a receiver that has a prefix and preformatted bytes
C13_Witness ==
    /\ sinkRec.h # 0
    /\ hist[sinkRec.h].op = "WithAttrs"
    /\ hist[hist[sinkRec.h].parent].view.prefix # <<>>
    /\ hist[hist[sinkRec.h].parent].view.pre # <<>>
    /\ hist[sinkRec.h].added # <<>>
    /\ sinkRec.r.attrs # <<>>

\* C14: WithGroup("") returns a handler that behaves as its receiver: it has
\* the receiver's prefix, groups and preformatted bytes (no empty segment
\* added), Handle writes the same bytes through either, and no new handler
\* was made.
C14_EmptyGroupNameIsReceiver ==
    (ret.op = "WithGroup" /\ ret.name = <<>>) =>
        /\ ret.res = ret.recv
        /\ View(heap, handlers[ret.res]) = hist[ret.recv].view
        /\ \A r \in DeriveRecords : HandleOf(ret.res, r) = HandleOf(ret.recv, r)
        /\ (sinkRec.h = ret.res => sink = HandleOf(ret.recv, sinkRec.r))

\* WithGroup("") has returned on a derived receiver that has a prefix, and
\* Handle has written a record with attributes through the result
C14_Witness ==
    /\ ret.op = "WithGroup" /\ ret.name = <<>>
    /\ hist[ret.recv].view.prefix # <<>>
    /\ sinkRec.h = ret.res
    /\ sinkRec.r.attrs # <<>>

-----------------------------------------------------------------------------
(* More claims about the transport (Spec)                                  *)

\* C15: when the first send succeeds, Write has made exactly one plain send,
\* which delivered the whole buffer with no descriptor, has made no spill
\* file and no descriptor send, and returns the buffer's length and no error.
C15_PlainSendOnly ==
    \A t \in Threads :
        (pc[t] = "done" /\ firstErr[t] = Nil) =>
            /\ plainSends[t] = 1
            /\ err[t] = Nil
            /\ nret[t] = Len(buf[t])
            /\ fdSends[t] = 0
            /\ file[t] = 0
            /\ FilesOf(rec[t].id) = {}
            /\ Cardinality(MessagesOf(rec[t].id)) = 1
            /\ \A m \in MessagesOf(rec[t].id) :
                  delivered[m].payload = buf[t] /\ delivered[m].fds = <<>>

\* a Write of a buffer that fits one datagram has returned after a send that
\* succeeded
C15_Witness ==
    \E t \in Threads :
        /\ pc[t] = "done"
        /\ firstErr[t] = Nil
        /\ plainSends[t] = 1
        /\ Len(buf[t]) > 0 /\ Len(buf[t]) <= MaxDatagram
        /\ \E m \in MessagesOf(rec[t].id) : delivered[m].payload = buf[t]

-----------------------------------------------------------------------------
(* More claims about Handle on derived handlers (SpecDerive)               *)

\* one wire entry
Entry(k, v) == appendKV(<<>>, k, v)

\* the three code-location entries of program counter p
CodeEntries(p) ==
    Entry(kCODE_FILE, Frame(p).File) \o Entry(kCODE_FUNC, Frame(p).Function)
        \o Entry(kCODE_LINE, Itoa(Frame(p).Line))

\* C16: what Handle writes is the MESSAGE entry, the PRIORITY entry with one
\* digit 0..7, then CODE_FILE, CODE_FUNC, CODE_LINE exactly when the PC is
\* not zero, then the timestamp entry exactly when the time is not zero, then
\* the identifier entry, then the handler's preformatted bytes as they are,
\* then the record's attributes flattened with the handler's prefix.
C16_HandleLayout ==
    sinkRec.h # 0 =>
        LET r == sinkRec.r
            v == hist[sinkRec.h].view
        IN  \E c \in 0..7 :
               sink = Entry(kMESSAGE, r.Message)
                      \o Entry(kPRIORITY, <<48 + c>>)
                      \o (IF r.PC # 0 THEN CodeEntries(r.PC) ELSE <<>>)
                      \o (IF ~r.Time.zero
                          THEN Entry(kSYSLOG_TIMESTAMP, UnixMicroText(r.Time))
                          ELSE <<>>)
                      \o Entry(kSYSLOG_IDENTIFIER, identifier)
                      \o v.pre
                      \o appendAttrs(handlers[sinkRec.h].opts, v.groups, <<>>,
                                     v.prefix, r.attrs)

\* Handle has written a record with a PC, a time and an attribute through a
\* handler that has a prefix and preformatted bytes
C16_Witness ==
    /\ sinkRec.h # 0
    /\ sinkRec.r.PC # 0
    /\ ~sinkRec.r.Time.zero
    /\ sinkRec.r.attrs # <<>>
    /\ hist[sinkRec.h].view.pre # <<>>
    /\ hist[sinkRec.h].view.prefix # <<>>

-----------------------------------------------------------------------------
(* Claims about Write's errors and about concurrent writers (Spec)         *)

\* C17: a first send that fails with an error other than ENOENT, ENOBUFS and
\* EMSGSIZE makes Write return that error, with no spill file and no second
\* send; no Write makes more than one plain send or more than one descriptor
\* send; and when the spill file cannot be made or written, or the descriptor
\* send fails, Write returns that failure's error.
C17_OtherErrorsReturnedNoRetry ==
    \A t \in Threads :
        /\ plainSends[t] <= 1
        /\ fdSends[t] <= 1
        /\ (pc[t] = "done" /\ firstErr[t] # Nil /\ ~Capacity(firstErr[t])
              /\ firstErr[t] # SysErr("ENOENT")) =>
              /\ err[t] = firstErr[t]
              /\ file[t] = 0
              /\ FilesOf(rec[t].id) = {}
              /\ fdSends[t] = 0
              /\ MessagesOf(rec[t].id) = {}
        /\ (pc[t] = "done" /\ Capacity(firstErr[t])) =>
              \* tempFd failed
              /\ file[t] = 0 =>
                    err[t] \notin {Nil, firstErr[t]} /\ fdSends[t] = 0
              \* file.Write failed
              /\ (file[t] # 0 /\ sealErr[t] = NotRun) =>
                    err[t] \notin {Nil, firstErr[t]} /\ fdSends[t] = 0
              \* WriteMsgUnix failed
              /\ fdErr[t] \notin {NotRun, Nil} =>
                    err[t] = fdErr[t] /\ MessagesOf(rec[t].id) = {}

\* a Write has returned the ECONNREFUSED of its first send
C17_Witness ==
    \E t \in Threads :
        /\ pc[t] = "done"
        /\ firstErr[t] = SysErr("ECONNREFUSED")
        /\ err[t] = SysErr("ECONNREFUSED")
        /\ plainSends[t] = 1

\* C18: with threads calling Handle at the same time on one journalWriter,
\* every message at the destination carries the whole buffer of one Handle
\* call and nothing else: as its payload, with no descriptor, or as the
\* content of its one descriptor's file, with an empty payload; and no call
\* has more than one message there.
C18_MessagesAreWholeBuffers ==
    /\ \A m \in 1..Len(delivered) :
          LET d == delivered[m] IN
          /\ d.call \in 1..Len(callBuf)
          /\ IF d.fds = <<>>
             THEN d.payload = callBuf[d.call]
             ELSE /\ d.payload = <<>>
                  /\ Len(d.fds) = 1
                  /\ files[d.fds[1]].call = d.call
                  /\ files[d.fds[1]].content = callBuf[d.call]
    /\ \A id \in 1..calls : Cardinality(MessagesOf(id)) <= 1

\* while one thread is between sealing its spill file and sending the
\* descriptor, the other thread's later call, with another buffer, has
\* delivered its message
C18_Witness ==
    \E t, u \in Threads :
        /\ t # u
        /\ pc[t] = "sendfd"
        /\ rec[u].id > rec[t].id
        /\ buf[u] # buf[t]
        /\ MessagesOf(rec[u].id) # {}
        /\ MessagesOf(rec[t].id) = {}

=============================================================================
